---- MODULE Spec2Model ----
(***************************************************************************)
(* DrivingAnalysis (driving_analysis/data_analyzer.py): the run() loop,    *)
(* the localisation detector diff_location and the perception tracker      *)
(* tracked_object_type_consistency, with the anomaly report they fill.     *)
(*                                                                         *)
(* The session log (driving_info) is read-only and run() reads every frame *)
(* record in one pass, so the model draws a record at the call that reads  *)
(* it: the obs record of a frame at the tracker call on that frame, the    *)
(* ego record of frame t at the diff_location call that reads it first     *)
(* (the next call reads it again as its previous frame).                   *)
(*                                                                         *)
(* Lengths are in hundredths of a metre (the report's 2 decimals), speeds  *)
(* in hundredths of a metre per second; arithmetic is exact (no floating   *)
(* point error is modelled).                                               *)
(***************************************************************************)
EXTENDS Integers, Sequences, FiniteSets, TLC

\* ---------------------------------------------------------------- bounds
\* Largest number of obs entries / ego frames of a log.
MaxObs == 4
MaxLoc == 3
MaxRun == 4
\* Largest number of detections in one frame.
MaxDet == 2
\* Largest del_track_id_after_missed_frames.
MaxGrace == 1

\* Track identifiers and object class labels of the logs.
Ids == {1, 2}
Labels == {"CAR", "car", "TRUCK", "UNKNOWN"}

VARIABLES
    tot_localisation_obs,              \* len(driving_info["ego"]["scene_id"])
    tot_perception_obs,                \* len(driving_info["obs"])
    fps,                               \* driving_info["fps"]
    localisation_max_diff,             \* self.localisation_max_diff
    del_track_id_after_missed_frames,  \* self.del_track_id_after_missed_frames
    localisation,                      \* self.anomalies["localisation"]
    raw,                               \* self.anomalies["perception"]["raw"]
    summary,                           \* self.anomalies["perception"]["summary"]
    currently_tracked_objects,         \* self.currently_tracked_objects
    i,                                 \* run(): the loop index
    pc,                                \* run(): "loc", "track", "emit", "done"
    scene_id,                          \* argument of the last tracker call
    scene,                             \* obs record read by the last tracker call
    ego_prev,                          \* ego record at scene_previous_timestep
    ego_curr,                          \* ego record at scene_timestep
    calls,                             \* history: the detector calls made so far
    absent_streak,                     \* history: see AgeStreak
    dropped,                           \* history: see DropType
    driving_info,                      \* history: see ReadLog
    output                             \* what json.dump wrote to output_file

vars == <<tot_localisation_obs, tot_perception_obs, fps, localisation_max_diff,
          del_track_id_after_missed_frames, localisation, raw, summary,
          currently_tracked_objects, i, pc, scene_id, scene, ego_prev, ego_curr,
          calls, absent_streak, dropped, driving_info, output>>

\* ------------------------------------------------------------- utilities
Max(a, b) == IF a >= b THEN a ELSE b

Min(a, b) == IF a <= b THEN a ELSE b

\* d with key k bound to v (a Python dict assignment d[k] = v).
Put(d, k, v) == [x \in DOMAIN d \cup {k} |-> IF x = k THEN v ELSE d[x]]

\* d without key k (del d[k]).
Del(d, k) == [x \in DOMAIN d \ {k} |-> d[x]]

EmptyDict == [x \in {} |-> 0]

\* ------------------------------------------------- the perception tracker
\* The obs record of a frame: parallel lists of identifiers and types; a frame
\* with no key in obs reads as MissingScene.
MissingScene == [present |-> FALSE, scene_id |-> <<>>, type |-> <<>>]

Scenes ==
    {MissingScene} \cup
    UNION {[present : {TRUE}, scene_id : [1..n -> Ids], type : [1..n -> Labels]] :
           n \in 0..MaxDet}

\* set(scene["scene_id"])
SceneTracksId(sc) == {sc.scene_id[j] : j \in 1..Len(sc.scene_id)}

\* str.lower on the labels of the logs.
Lower(s) ==
    CASE s = "CAR" -> "car"
      [] s = "car" -> "car"
      [] s = "TRUCK" -> "truck"
      [] s = "UNKNOWN" -> "unknown"

\* f"{previous_object_type.lower()}_2_{object_type.lower()}"
SummaryKey(previous_object_type, object_type) ==
    Lower(previous_object_type) \o "_2_" \o Lower(object_type)

\* Mutant of Increment: the counter is set, not incremented.
IncrementSet(sm, key) == Put(sm, key, 1)

\* summary[key] = 1 if key not in summary, else summary[key] += 1
Increment(sm, key) ==
    IF key \notin DOMAIN sm THEN Put(sm, key, 1) ELSE Put(sm, key, sm[key] + 1)

\* The raw value None of an empty frame.
None == [null |-> TRUE]

\* Mutant of EmptyFrame: the summary is replaced, not updated.
EmptyFrameResets(st, frame) ==
    [st EXCEPT !.raw = Put(st.raw, ToString(frame), None),
               !.summary = Put(EmptyDict, "empty_frames", 1)]

\* Mutant of EmptyFrame: an empty frame also ages the tracked objects.
EmptyFrameAges(st, frame) ==
    [st EXCEPT !.raw = Put(st.raw, ToString(frame), None),
               !.summary = Increment(st.summary, "empty_frames"),
               !.tracked = [k \in DOMAIN st.tracked |->
                              [st.tracked[k] EXCEPT !.undetected_frame_count = @ + 1]]]

\* The empty-frame branch: raw[str(scene_id)] = None, empty_frames counted.
EmptyFrame(st, frame) ==
    [st EXCEPT !.raw = Put(st.raw, ToString(frame), None),
               !.summary = Increment(st.summary, "empty_frames")]

\* Mutant of AgeOne: the entry is deleted one missed frame late.
AgeOneLate(table, lost_track_id, threshold) ==
    LET count_lost_track_id == table[lost_track_id].undetected_frame_count + 1
    IN IF count_lost_track_id > threshold + 1
       THEN Del(table, lost_track_id)
       ELSE [table EXCEPT ![lost_track_id].undetected_frame_count =
                              count_lost_track_id]

\* Mutant of AgeOne: a lost entry is aged and never deleted.
AgeOneKeeps(table, lost_track_id, threshold) ==
    [table EXCEPT ![lost_track_id].undetected_frame_count = @ + 1]

\* One pass of the loop over lost_tracked_id: the count is incremented and the
\* entry deleted once the count exceeds the threshold.
AgeOne(table, lost_track_id, threshold) ==
    LET count_lost_track_id == table[lost_track_id].undetected_frame_count + 1
    IN IF count_lost_track_id > threshold
       THEN Del(table, lost_track_id)
       ELSE [table EXCEPT ![lost_track_id].undetected_frame_count =
                              count_lost_track_id]

\* The loop over lost_tracked_id = current_tracks_id - scene_tracks_id. Each
\* pass touches only its own entry, so the set's iteration order is immaterial.
RECURSIVE AgeLost(_, _, _)
AgeLost(table, lost_tracked_id, threshold) ==
    IF lost_tracked_id = {} THEN table
    ELSE LET lost_track_id == CHOOSE k \in lost_tracked_id : TRUE
         IN AgeLost(AgeOne(table, lost_track_id, threshold),
                    lost_tracked_id \ {lost_track_id}, threshold)

\* Mutant of Reconcile: a frame's raw record is written once, by its first mismatch.
ReconcileKeepFirst(st, sc, frame, j) ==
    LET track_id == sc.scene_id[j]
        object_type == sc.type[j]
        table == st.tracked
    IN IF track_id \notin DOMAIN table
       THEN [st EXCEPT !.tracked =
                Put(table, track_id,
                    [object_type |-> object_type, undetected_frame_count |-> 0])]
       ELSE IF table[track_id].object_type # object_type
       THEN LET previous_object_type == table[track_id].object_type
            IN IF "UNKNOWN" \in {object_type, previous_object_type}
               THEN st
               ELSE [st EXCEPT
                        !.raw = IF ToString(frame) \in DOMAIN st.raw THEN st.raw
                                ELSE Put(st.raw, ToString(frame),
                                    [track_id |-> track_id,
                                     previous_object_type |-> previous_object_type,
                                     new_object_type |-> object_type]),
                        !.summary = Increment(st.summary,
                                        SummaryKey(previous_object_type, object_type))]
       ELSE st

\* Mutant of Reconcile: the UNKNOWN label is flagged like any other.
ReconcileFlagUnknown(st, sc, frame, j) ==
    LET track_id == sc.scene_id[j]
        object_type == sc.type[j]
        table == st.tracked
    IN IF track_id \notin DOMAIN table
       THEN [st EXCEPT !.tracked =
                Put(table, track_id,
                    [object_type |-> object_type, undetected_frame_count |-> 0])]
       ELSE IF table[track_id].object_type # object_type
       THEN LET previous_object_type == table[track_id].object_type
            IN IF FALSE
               THEN st
               ELSE [st EXCEPT
                        !.raw = Put(st.raw, ToString(frame),
                                    [track_id |-> track_id,
                                     previous_object_type |-> previous_object_type,
                                     new_object_type |-> object_type]),
                        !.summary = Increment(st.summary,
                                        SummaryKey(previous_object_type, object_type))]
       ELSE st

\* Mutant of Reconcile: a flagged mismatch overwrites the stored object_type.
ReconcileSelfHeal(st, sc, frame, j) ==
    LET track_id == sc.scene_id[j]
        object_type == sc.type[j]
        table == st.tracked
    IN IF track_id \notin DOMAIN table
       THEN [st EXCEPT !.tracked =
                Put(table, track_id,
                    [object_type |-> object_type, undetected_frame_count |-> 0])]
       ELSE IF table[track_id].object_type # object_type
       THEN LET previous_object_type == table[track_id].object_type
            IN IF "UNKNOWN" \in {object_type, previous_object_type}
               THEN st
               ELSE [st EXCEPT
                        !.tracked = [table EXCEPT ![track_id].object_type = object_type],
                        !.raw = Put(st.raw, ToString(frame),
                                    [track_id |-> track_id,
                                     previous_object_type |-> previous_object_type,
                                     new_object_type |-> object_type]),
                        !.summary = Increment(st.summary,
                                        SummaryKey(previous_object_type, object_type))]
       ELSE st

\* Mutant of Reconcile: a new entry starts with one undetected frame.
ReconcileInsertAged(st, sc, frame, j) ==
    LET track_id == sc.scene_id[j]
        object_type == sc.type[j]
        table == st.tracked
    IN IF track_id \notin DOMAIN table
       THEN [st EXCEPT !.tracked =
                Put(table, track_id,
                    [object_type |-> object_type, undetected_frame_count |-> 1])]
       ELSE IF table[track_id].object_type # object_type
       THEN LET previous_object_type == table[track_id].object_type
            IN IF "UNKNOWN" \in {object_type, previous_object_type}
               THEN st
               ELSE [st EXCEPT
                        !.raw = Put(st.raw, ToString(frame),
                                    [track_id |-> track_id,
                                     previous_object_type |-> previous_object_type,
                                     new_object_type |-> object_type]),
                        !.summary = Increment(st.summary,
                                        SummaryKey(previous_object_type, object_type))]
       ELSE st

\* The body of the loop over the detections, for detection j of the scene.
Reconcile(st, sc, frame, j) ==
    LET track_id == sc.scene_id[j]
        object_type == sc.type[j]
        table == st.tracked
    IN IF track_id \notin DOMAIN table
       THEN [st EXCEPT !.tracked =
                Put(table, track_id,
                    [object_type |-> object_type, undetected_frame_count |-> 0])]
       ELSE IF table[track_id].object_type # object_type
       THEN LET previous_object_type == table[track_id].object_type
            IN IF "UNKNOWN" \in {object_type, previous_object_type}
               THEN st
               ELSE [st EXCEPT
                        !.raw = Put(st.raw, ToString(frame),
                                    [track_id |-> track_id,
                                     previous_object_type |-> previous_object_type,
                                     new_object_type |-> object_type]),
                        !.summary = Increment(st.summary,
                                        SummaryKey(previous_object_type, object_type))]
       ELSE st

\* for i in range(len(scene["scene_id"])): detections j..Len in order.
RECURSIVE ReconcileFrom(_, _, _, _)
ReconcileFrom(st, sc, frame, j) ==
    IF j > Len(sc.scene_id) THEN st
    ELSE ReconcileFrom(Reconcile(st, sc, frame, j), sc, frame, j + 1)

\* tracked_object_type_consistency(frame) reading obs record sc; st holds the
\* tracked-object table and the perception report.
TrackedObjectTypeConsistency(st, sc, frame, threshold) ==
    IF ~sc.present THEN EmptyFrame(st, frame)
    ELSE LET current_tracks_id == DOMAIN st.tracked
             scene_tracks_id == SceneTracksId(sc)
             lost_tracked_id == current_tracks_id \ scene_tracks_id
             aged == [st EXCEPT !.tracked = AgeLost(st.tracked, lost_tracked_id,
                                                    threshold)]
         IN ReconcileFrom(aged, sc, frame, 1)

\* History, not program state: for each identifier the number of processed
\* frames with an obs entry since the last one that listed it, -1 before its
\* first sighting; it stops counting one past the threshold.
AgeStreak(streak, sc, threshold) ==
    IF ~sc.present THEN streak
    ELSE [k \in Ids |->
            IF k \in SceneTracksId(sc) THEN 0
            ELSE IF streak[k] < 0 THEN streak[k]
            ELSE Min(streak[k] + 1, threshold + 1)]

\* History, not program state: for each identifier the object_type its entry
\* had when it was last deleted from the table, "-" when it never was.
DropType(last, before, after) ==
    [k \in Ids |-> IF k \in DOMAIN before \ DOMAIN after
                   THEN before[k].object_type
                   ELSE last[k]]

\* ---------------------------------------------- the localisation detector
\* The headings of the logs, with 5*cos(yaw) and 5*sin(yaw).
Yaws == {"0", "atan(4/3)"}

Cos5(yaw) == IF yaw = "0" THEN 5 ELSE 3

Sin5(yaw) == IF yaw = "0" THEN 0 ELSE 4

\* Positions, speeds, sampling rates and thresholds of the logs.
Coords == [x : {0, 3, 4}, y : {0, 4}]

Motions == [speed : {0, 5}, yaw : Yaws]

FpsValues == {1, 2}

MaxDiffs == {0, 5}

\* diff_x and diff_y, each multiplied by 5*fps so that it is an integer:
\* curr - (prev + prev_speed * cos(prev_yaw) * (1 / fps)).
DiffX(prev, curr, rate) ==
    5 * rate * (curr.x - prev.x) - prev.speed * Cos5(prev.yaw)

DiffY(prev, curr, rate) ==
    5 * rate * (curr.y - prev.y) - prev.speed * Sin5(prev.yaw)

\* direct_distance_diff squared, in units of (1 / (5*fps)) squared.
DistanceSq(prev, curr, rate) ==
    DiffX(prev, curr, rate) * DiffX(prev, curr, rate)
    + DiffY(prev, curr, rate) * DiffY(prev, curr, rate)

\* Mutant of Exceeds: a distance equal to the threshold is flagged too.
ExceedsOrEqual(dsq, rate, max_diff) ==
    dsq >= (5 * rate * max_diff) * (5 * rate * max_diff)

\* direct_distance_diff > self.localisation_max_diff
Exceeds(dsq, rate, max_diff) == dsq > (5 * rate * max_diff) * (5 * rate * max_diff)

\* floor(direct_distance_diff), in hundredths.
RECURSIVE FloorFrom(_, _, _)
FloorFrom(dsq, rate, n) ==
    IF (5 * rate * (n + 1)) * (5 * rate * (n + 1)) > dsq THEN n
    ELSE FloorFrom(dsq, rate, n + 1)

\* round(direct_distance_diff, 2): the nearest hundredth. A distance half way
\* between two hundredths is no binary floating point number, so the float
\* that is rounded lies on either side of it: both neighbours are results.
Round2(dsq, rate) ==
    LET n == FloorFrom(dsq, rate, 0)
        half == (5 * rate * (2 * n + 1)) * (5 * rate * (2 * n + 1))
    IN IF 4 * dsq < half THEN {n}
       ELSE IF 4 * dsq > half THEN {n + 1}
       ELSE {n, n + 1}

\* diff_location(scene_timestep, scene_previous_timestep): the localisation
\* reports it can leave.
\* Mutant of DiffLocation: a flagged frame replaces the report instead of
\* joining it.
DiffLocationRebuild(loc, t, prev, curr, rate, max_diff) ==
    LET dsq == DistanceSq(prev, curr, rate)
    IN IF Exceeds(dsq, rate, max_diff)
       THEN {Put(EmptyDict, t, v) : v \in Round2(dsq, rate)}
       ELSE {loc}

DiffLocation(loc, t, prev, curr, rate, max_diff) ==
    LET dsq == DistanceSq(prev, curr, rate)
    IN IF Exceeds(dsq, rate, max_diff)
       THEN {Put(loc, t, v) : v \in Round2(dsq, rate)}
       ELSE {loc}

\* ------------------------------------------------------------------ run()
\* max(self.tot_localisation_obs, self.tot_perception_obs)
\* Mutant of TotalIteration: the loop stops at the end of the shorter stream.
TotalIterationMin == Min(tot_localisation_obs, tot_perception_obs)

TotalIteration == Max(tot_localisation_obs, tot_perception_obs)

NoCoord == [x |-> 0, y |-> 0]

NoEgo == [x |-> 0, y |-> 0, speed |-> 0, yaw |-> "0"]

Report == [localisation |-> localisation,
           perception |-> [raw |-> raw, summary |-> summary]]

NoOutput == <<>>

NoLog == [obs |-> EmptyDict, ego |-> EmptyDict, motion |-> EmptyDict]

\* The state after __init__ and on entry to run()'s loop, for a log with
\* nloc ego frames and nobs obs entries.
InitWith(nlocs, nobss, rates, max_diffs, thresholds) ==
    /\ tot_localisation_obs \in nlocs
    /\ tot_perception_obs \in nobss
    /\ fps \in rates
    /\ localisation_max_diff \in max_diffs
    /\ del_track_id_after_missed_frames \in thresholds
    /\ localisation = EmptyDict
    /\ raw = EmptyDict
    /\ summary = EmptyDict
    /\ currently_tracked_objects = EmptyDict
    /\ i = 1
    /\ pc = IF 1 < TotalIteration THEN "loc" ELSE "emit"
    /\ scene_id = -1
    /\ scene = MissingScene
    /\ ego_prev = NoEgo
    /\ ego_curr = NoCoord
    /\ calls = <<>>
    /\ absent_streak = [k \in Ids |-> -1]
    /\ dropped = [k \in Ids |-> "-"]
    /\ driving_info = NoLog
    /\ output = NoOutput

\* Mutant of CallsTracker: the tracker runs while there are ego frames.
CallsTrackerOnEgo(n) == n < tot_localisation_obs

\* Mutant of TrackFrame: the tracker is handed the loop index itself.
TrackFrameNoOffset(n) == n

\* The frame run() hands to the tracker at loop index n: i - 1.
TrackFrame(n) == n - 1

\* if i < self.tot_perception_obs
CallsTracker(n) == n < tot_perception_obs

\* Mutant of CallsLocaliser: the localisation check runs at every loop index.
CallsLocaliserAlways(n) == n < TotalIteration

\* if i < self.tot_localisation_obs
CallsLocaliser(n) == n < tot_localisation_obs

\* if i < self.tot_localisation_obs: self.diff_location(i, i - 1)
RunLocalise(coords, motions) ==
    /\ pc = "loc"
    /\ pc' = "track"
    /\ IF CallsLocaliser(i)
       THEN \E xy \in coords, m \in motions, nxt \in coords :
              \* frame i - 1 was read as frame i by the previous call, if any
              LET at == IF i > 1 THEN ego_curr ELSE xy
                  prev == [x |-> at.x, y |-> at.y, speed |-> m.speed, yaw |-> m.yaw]
              IN /\ ego_prev' = prev
                 /\ ego_curr' = nxt
                 /\ localisation' \in DiffLocation(localisation, i, prev, nxt, fps,
                                                  localisation_max_diff)
                 /\ calls' = Append(calls, <<"diff_location", i, i - 1>>)
       ELSE UNCHANGED <<ego_prev, ego_curr, localisation, calls>>
    /\ UNCHANGED <<tot_localisation_obs, tot_perception_obs, fps,
                   localisation_max_diff, del_track_id_after_missed_frames, raw,
                   summary, currently_tracked_objects, i, scene_id, scene,
                   absent_streak, dropped, output>>

\* if i < self.tot_perception_obs: self.tracked_object_type_consistency(i - 1)
\* and the loop's step to the next i.
RunTrack(scenes) ==
    /\ pc = "track"
    /\ i' = i + 1
    /\ pc' = IF i + 1 < TotalIteration THEN "loc" ELSE "emit"
    /\ IF CallsTracker(i)
       THEN \E sc \in scenes :
              \E st \in {TrackedObjectTypeConsistency(
                            [tracked |-> currently_tracked_objects, raw |-> raw,
                             summary |-> summary],
                            sc, TrackFrame(i), del_track_id_after_missed_frames)} :
                 /\ scene_id' = TrackFrame(i)
                 /\ scene' = sc
                 /\ currently_tracked_objects' = st.tracked
                 /\ raw' = st.raw
                 /\ summary' = st.summary
                 /\ absent_streak' = AgeStreak(absent_streak, sc,
                                               del_track_id_after_missed_frames)
                 /\ dropped' = DropType(dropped, currently_tracked_objects,
                                        st.tracked)
                 /\ calls' = Append(calls, <<"tracked_object_type_consistency", TrackFrame(i)>>)
       ELSE UNCHANGED <<scene_id, scene, currently_tracked_objects, raw, summary,
                        absent_streak, dropped, calls>>
    /\ UNCHANGED <<tot_localisation_obs, tot_perception_obs, fps,
                   localisation_max_diff, del_track_id_after_missed_frames,
                   localisation, ego_prev, ego_curr, output>>

\* json.dump(self.anomalies, f), after the loop.
RunEmit ==
    /\ pc = "emit"
    /\ pc' = "done"
    /\ output' = <<Report>>
    /\ UNCHANGED <<tot_localisation_obs, tot_perception_obs, fps,
                   localisation_max_diff, del_track_id_after_missed_frames,
                   localisation, raw, summary, currently_tracked_objects, i,
                   scene_id, scene, ego_prev, ego_curr, calls, absent_streak,
                   dropped>>

\* History, not program state: the entries of self.driving_info the calls have
\* read so far, by frame: the obs entry of a frame, the position of an ego
\* frame and its speed and yaw.
ReadLog ==
    driving_info' =
        IF calls' = calls THEN driving_info
        ELSE LET c == calls'[Len(calls')]
             IN IF c[1] = "diff_location"
                THEN [driving_info EXCEPT
                         !.ego = Put(Put(@, c[3], [x |-> ego_prev'.x,
                                                   y |-> ego_prev'.y]),
                                     c[2], ego_curr'),
                         !.motion = Put(@, c[3], [speed |-> ego_prev'.speed,
                                                  yaw |-> ego_prev'.yaw])]
                ELSE [driving_info EXCEPT !.obs = Put(@, c[2], scene')]

\* The specifications of one stream alone keep no history of the log.
ForgetLog == UNCHANGED driving_info

\* run() on logs of both streams, over a small vocabulary.
RunScenes == {sc \in Scenes : /\ Len(sc.scene_id) <= 1
                              /\ SceneTracksId(sc) \subseteq {1}
                              /\ \A j \in 1..Len(sc.type) : sc.type[j] \in {"CAR", "TRUCK"}}

RunCoords == {c \in Coords : c.y = 0 /\ c.x \in {0, 4}}

RunMotions == {m \in Motions : m.speed = 0 /\ m.yaw = "0"}

Init == InitWith(0..MaxRun, 0..MaxRun, {1}, MaxDiffs, {0, 1})

Next ==
    \/ RunLocalise(RunCoords, RunMotions) /\ ReadLog
    \/ RunTrack(RunScenes) /\ ReadLog
    \/ RunEmit /\ ReadLog

Spec == Init /\ [][Next]_vars

\* run() is not stopped from outside: a step that can be taken is taken.
SpecFair == Spec /\ WF_vars(Next)

\* The perception stream alone: logs without ego frames, MaxObs obs entries.
InitTrack == InitWith({0}, {MaxObs}, {1}, {0}, 0..MaxGrace)

NextTrack ==
    \/ RunLocalise(Coords, Motions) /\ ForgetLog
    \/ RunTrack(Scenes) /\ ForgetLog
    \/ RunEmit /\ ForgetLog

SpecTrack == InitTrack /\ [][NextTrack]_vars

\* Occlusion: longer perception streams over one object class.
MaxOcc == 5

OccScenes == {sc \in Scenes : \A j \in 1..Len(sc.type) : sc.type[j] = "CAR"}

InitOcc == InitWith({0}, {MaxOcc}, {1}, {0}, 0..MaxGrace)

NextOcc ==
    \/ RunLocalise(Coords, Motions) /\ ForgetLog
    \/ RunTrack(OccScenes) /\ ForgetLog
    \/ RunEmit /\ ForgetLog

SpecOcc == InitOcc /\ [][NextOcc]_vars

\* The localisation stream alone: logs without obs entries, MaxLoc ego frames.
InitLoc == InitWith({MaxLoc}, {0}, FpsValues, MaxDiffs, {0})

NextLoc ==
    \/ RunLocalise(Coords, Motions) /\ ForgetLog
    \/ RunTrack(Scenes) /\ ForgetLog
    \/ RunEmit /\ ForgetLog

SpecLoc == InitLoc /\ [][NextLoc]_vars

\* ------------------------------------------------------- claim vocabulary
\* The last step was a call of tracked_object_type_consistency.
TrackerStep ==
    /\ Len(calls') = Len(calls) + 1
    /\ calls'[Len(calls')][1] = "tracked_object_type_consistency"

\* sm.get(key, 0)
Count(sm, key) == IF key \in DOMAIN sm THEN sm[key] ELSE 0

\* The type of the first detection of identifier k in scene sc.
FirstType(sc, k) ==
    sc.type[CHOOSE j \in 1..Len(sc.scene_id) :
                /\ sc.scene_id[j] = k
                /\ \A h \in 1..(j - 1) : sc.scene_id[h] # k]

\* The detections of sc that mismatch the type table stores for their
\* identifier, neither type being UNKNOWN.
Mismatching(sc, table) ==
    {j \in 1..Len(sc.scene_id) :
        /\ sc.scene_id[j] \in DOMAIN table
        /\ table[sc.scene_id[j]].object_type # sc.type[j]
        /\ table[sc.scene_id[j]].object_type # "UNKNOWN"
        /\ sc.type[j] # "UNKNOWN"}

\* The detections of sc whose type differs from the stored one, one of the two
\* being UNKNOWN.
UnknownDiffering(sc, table) ==
    {j \in 1..Len(sc.scene_id) :
        /\ sc.scene_id[j] \in DOMAIN table
        /\ table[sc.scene_id[j]].object_type # sc.type[j]
        /\ "UNKNOWN" \in {table[sc.scene_id[j]].object_type, sc.type[j]}}

\* The report record of mismatching detection j.
MismatchRecord(sc, table, j) ==
    [track_id |-> sc.scene_id[j],
     previous_object_type |-> table[sc.scene_id[j]].object_type,
     new_object_type |-> sc.type[j]]

SetMin(S) == CHOOSE m \in S : \A n \in S : m <= n

SetMax(S) == CHOOSE m \in S : \A n \in S : m >= n

RawKey == ToString(scene_id)

\* ----------------------------------------------------------------- claims
\* C1: an identifier not listed in at most N processed frames (with an obs
\* entry) since the last frame that listed it is still tracked, and one not
\* listed in N+1 such frames is not, whatever happened to it before
\* (N = del_track_id_after_missed_frames).
C1_OcclusionGrace ==
    \A k \in Ids :
        /\ (absent_streak[k] >= 0
            /\ absent_streak[k] <= del_track_id_after_missed_frames)
           => k \in DOMAIN currently_tracked_objects
        /\ absent_streak[k] > del_track_id_after_missed_frames
           => k \notin DOMAIN currently_tracked_objects

\* C2 as claimed: after a frame with mismatches is processed, raw[frame] is
\* the record of the FIRST mismatching detection of the frame.
C2_FirstMismatchRecorded ==
    (scene.present /\ Mismatching(scene, currently_tracked_objects) # {})
    => /\ RawKey \in DOMAIN raw
       /\ raw[RawKey] = MismatchRecord(scene, currently_tracked_objects,
                            SetMin(Mismatching(scene, currently_tracked_objects)))

\* C2 amended: after a frame with mismatches is processed, raw[frame] is the
\* record of the LAST mismatching detection of the frame.
C2_LastMismatchRecorded ==
    (scene.present /\ Mismatching(scene, currently_tracked_objects) # {})
    => /\ RawKey \in DOMAIN raw
       /\ raw[RawKey] = MismatchRecord(scene, currently_tracked_objects,
                            SetMax(Mismatching(scene, currently_tracked_objects)))

\* Two identifiers mismatch in the frame just processed, with different
\* records, and the later one is in the report.
C2_Witness ==
    /\ scene.present
    /\ \E j, h \in Mismatching(scene, currently_tracked_objects) :
          /\ j < h
          /\ scene.scene_id[j] # scene.scene_id[h]
          /\ raw[RawKey] = MismatchRecord(scene, currently_tracked_objects, h)

\* C3: processing a frame with an obs entry raises every transition counter by
\* the number of the frame's mismatching detections with that key, and leaves a
\* record in raw[frame] when there is one at least.
C3_MismatchCounted ==
    [][(TrackerStep /\ scene'.present) =>
        LET mis == Mismatching(scene', currently_tracked_objects')
            key(j) == SummaryKey(
                          currently_tracked_objects'[scene'.scene_id[j]].object_type,
                          scene'.type[j])
        IN /\ \A a, b \in Labels :
                Count(summary', SummaryKey(a, b)) - Count(summary, SummaryKey(a, b))
                = Cardinality({j \in mis : key(j) = SummaryKey(a, b)})
           /\ mis # {} => /\ ToString(scene_id') \in DOMAIN raw'
                          /\ raw'[ToString(scene_id')] # None
      ]_vars

\* Two identifiers mismatch with the same transition key in the frame just
\* processed, and the counter of that key is 2 at least.
C3_Witness ==
    /\ scene.present
    /\ RawKey \in DOMAIN raw
    /\ raw[RawKey] # None
    /\ \E j, h \in Mismatching(scene, currently_tracked_objects) :
          LET a == currently_tracked_objects[scene.scene_id[j]].object_type
              b == currently_tracked_objects[scene.scene_id[h]].object_type
          IN /\ j # h
             /\ scene.scene_id[j] # scene.scene_id[h]
             /\ SummaryKey(a, scene.type[j]) = SummaryKey(b, scene.type[h])
             /\ Count(summary, SummaryKey(a, scene.type[j])) >= 2

\* C4: no raw record and no transition counter names UNKNOWN, and a frame
\* whose only differing detections involve UNKNOWN changes neither the report
\* nor a stored object_type.
C4_UnknownSuppressed ==
    [][/\ \A key \in DOMAIN raw' :
            raw'[key] # None =>
                /\ raw'[key].previous_object_type # "UNKNOWN"
                /\ raw'[key].new_object_type # "UNKNOWN"
       /\ \A a, b \in Labels :
            "UNKNOWN" \in {a, b} => SummaryKey(a, b) \notin DOMAIN summary'
       /\ (/\ TrackerStep
           /\ scene'.present
           /\ Mismatching(scene', currently_tracked_objects') = {})
          => /\ raw' = raw
             /\ summary' = summary
             /\ \A k \in DOMAIN currently_tracked_objects
                         \cap DOMAIN currently_tracked_objects' :
                   currently_tracked_objects'[k].object_type
                   = currently_tracked_objects[k].object_type
      ]_vars

\* The frame just processed detects as a known class an identifier stored as
\* UNKNOWN, and as UNKNOWN one stored as a known class; nothing was reported.
C4_Witness ==
    /\ scene.present
    /\ RawKey \notin DOMAIN raw
    /\ \E j, h \in UnknownDiffering(scene, currently_tracked_objects) :
          /\ scene.type[j] = "UNKNOWN"
          /\ scene.type[h] # "UNKNOWN"

\* C5: a call on a frame without obs entry sets raw[frame] to null, adds one to
\* empty_frames and changes nothing else.
C5_EmptyFrameEffect ==
    [][(TrackerStep /\ ~scene'.present) =>
        /\ DOMAIN raw' = DOMAIN raw \cup {ToString(scene_id')}
        /\ raw'[ToString(scene_id')] = None
        /\ \A key \in DOMAIN raw \ {ToString(scene_id')} : raw'[key] = raw[key]
        /\ DOMAIN summary' = DOMAIN summary \cup {"empty_frames"}
        /\ summary'["empty_frames"] = Count(summary, "empty_frames") + 1
        /\ \A key \in DOMAIN summary \ {"empty_frames"} : summary'[key] = summary[key]
        /\ currently_tracked_objects' = currently_tracked_objects
        /\ localisation' = localisation
      ]_vars

\* The second empty frame of a run was just processed while an object was
\* being tracked.
C5_Witness ==
    /\ scene_id >= 0
    /\ ~scene.present
    /\ raw[RawKey] = None
    /\ Count(summary, "empty_frames") = 2
    /\ currently_tracked_objects # EmptyDict

\* The last call made was diff_location.
LastCallIsDiffLocation ==
    /\ calls # <<>>
    /\ calls[Len(calls)][1] = "diff_location"

\* The squared deviation of the last diff_location call, from the records it
\* read: 25 * fps^2 times the squared distance between the recorded position
\* and the dead-reckoning one, x + speed*cos(yaw)/fps, y + speed*sin(yaw)/fps.
LastDeviationSq ==
    LET ex == 5 * fps * ego_prev.x + ego_prev.speed * Cos5(ego_prev.yaw)
        ey == 5 * fps * ego_prev.y + ego_prev.speed * Sin5(ego_prev.yaw)
        dx == 5 * fps * ego_curr.x - ex
        dy == 5 * fps * ego_curr.y - ey
    IN dx * dx + dy * dy

\* C6: after diff_location(t, t-1), localisation has key t exactly when the
\* deviation is strictly greater than localisation_max_diff, and the value
\* stored is then the deviation rounded to 2 decimals (within half a hundredth
\* of it).
C6_FlaggedIffExceeds ==
    LastCallIsDiffLocation =>
        LET t == calls[Len(calls)][2]
            scale == 5 * fps
            bound == scale * localisation_max_diff
        IN /\ calls[Len(calls)][3] = t - 1
           /\ t \in DOMAIN localisation <=> LastDeviationSq > bound * bound
           /\ t \in DOMAIN localisation =>
                LET v == localisation[t]
                IN /\ v >= 0
                   /\ 4 * LastDeviationSq
                      <= (scale * (2 * v + 1)) * (scale * (2 * v + 1))
                   /\ \/ v = 0
                      \/ 4 * LastDeviationSq
                         >= (scale * (2 * v - 1)) * (scale * (2 * v - 1))

\* Frame 1 was flagged, and the deviation at frame 2 equals a positive
\* threshold and was not flagged.
C6_Witness ==
    /\ LastCallIsDiffLocation
    /\ calls[Len(calls)][2] = 2
    /\ localisation_max_diff > 0
    /\ LastDeviationSq
       = (5 * fps * localisation_max_diff) * (5 * fps * localisation_max_diff)
    /\ DOMAIN localisation = {1}
    /\ localisation[1] > localisation_max_diff

IsTrackerCall(c) == c[1] = "tracked_object_type_consistency"

TrackerCalls == SelectSeq(calls, IsTrackerCall)

\* C7: the tracker calls of run() are on frames 0, 1, 2, ... in this order,
\* never on frame N_obs - 1 or later, and all of 0 .. N_obs - 2 when the loop
\* has ended.
C7_TrackerFrames ==
    /\ \A j \in 1..Len(TrackerCalls) : TrackerCalls[j][2] = j - 1
    /\ Len(TrackerCalls) <= Max(tot_perception_obs - 1, 0)
    /\ pc \in {"emit", "done"} =>
          Len(TrackerCalls) = Max(tot_perception_obs - 1, 0)

\* A run over more ego frames than obs entries has ended, with two tracker
\* calls made.
C7_Witness ==
    /\ pc = "done"
    /\ tot_localisation_obs > tot_perception_obs
    /\ Len(TrackerCalls) = 2
    /\ Len(calls) > 2 * Len(TrackerCalls)

\* C8: a call never changes the stored object_type of an identifier it keeps,
\* a new entry has the type of the identifier's first detection, and every
\* detection of a tracked identifier with another type (none UNKNOWN) adds to
\* the transition counter of the stored and the detected type.
C8_BaselineKept ==
    [][/\ \A k \in DOMAIN currently_tracked_objects
                    \cap DOMAIN currently_tracked_objects' :
            currently_tracked_objects'[k].object_type
            = currently_tracked_objects[k].object_type
       /\ TrackerStep =>
            /\ \A k \in DOMAIN currently_tracked_objects'
                        \ DOMAIN currently_tracked_objects :
                  currently_tracked_objects'[k].object_type = FirstType(scene', k)
            /\ \A j \in Mismatching(scene', currently_tracked_objects) :
                  LET key == SummaryKey(
                          currently_tracked_objects[scene'.scene_id[j]].object_type,
                          scene'.type[j])
                  IN Count(summary', key) >= Count(summary, key) + 1
      ]_vars

\* An identifier was flagged against the same stored type in two frames.
C8_Witness ==
    /\ scene.present
    /\ scene_id = 2
    /\ \E j \in Mismatching(scene, currently_tracked_objects) :
          LET k == scene.scene_id[j]
              a == currently_tracked_objects[k].object_type
          IN /\ Len(scene.scene_id) = 1
             /\ raw[RawKey] = MismatchRecord(scene, currently_tracked_objects, j)
             /\ "1" \in DOMAIN raw
             /\ raw["1"] # None
             /\ raw["1"].track_id = k
             /\ raw["1"].previous_object_type = a
             /\ Count(summary, SummaryKey(a, scene.type[j])) = 2

\* C9: after a frame with an obs entry is processed every identifier it lists
\* is tracked; from an empty table, the table then holds exactly the frame's
\* identifiers, each with count 0 and the type of its first detection.
C9_ListedAreTracked ==
    [][(TrackerStep /\ scene'.present) =>
        /\ SceneTracksId(scene') \subseteq DOMAIN currently_tracked_objects'
        /\ currently_tracked_objects = EmptyDict =>
             /\ DOMAIN currently_tracked_objects' = SceneTracksId(scene')
             /\ \A k \in SceneTracksId(scene') :
                   currently_tracked_objects'[k] =
                       [object_type |-> FirstType(scene', k),
                        undetected_frame_count |-> 0]
      ]_vars

\* Frame 0 listed two identifiers and the table has two entries.
C9_Witness ==
    /\ scene_id = 0
    /\ scene.present
    /\ Cardinality(SceneTracksId(scene)) = 2
    /\ Cardinality(DOMAIN currently_tracked_objects) = 2
    /\ \A k \in Ids : currently_tracked_objects[k].undetected_frame_count = 0

\* C10: with del_track_id_after_missed_frames = 0 the table's keys are, after
\* every processed frame with an obs entry, the identifiers of that frame.
C10_ImmediateDeletion ==
    (del_track_id_after_missed_frames = 0 /\ scene.present)
    => DOMAIN currently_tracked_objects = SceneTracksId(scene)

\* With threshold 0, an identifier seen before is missing from the frame just
\* processed and from the table, and another one is tracked.
C10_Witness ==
    /\ del_track_id_after_missed_frames = 0
    /\ scene.present
    /\ \E k \in Ids : /\ absent_streak[k] = 1
                      /\ k \notin DOMAIN currently_tracked_objects
    /\ currently_tracked_objects # EmptyDict

IsDiffLocationCall(c) == c[1] = "diff_location"

DiffLocationCalls == SelectSeq(calls, IsDiffLocationCall)

\* C11: the diff_location calls of run() are (1, 0), (2, 1), ... in this order,
\* never with an index of N_loc or more, and all of 1 .. N_loc - 1 when the
\* loop has ended; localisation has no key outside 1 .. N_loc - 1.
C11_LocaliserPairs ==
    /\ \A j \in 1..Len(DiffLocationCalls) :
          /\ DiffLocationCalls[j][2] = j
          /\ DiffLocationCalls[j][3] = j - 1
          /\ DiffLocationCalls[j][2] < tot_localisation_obs
    /\ pc \in {"emit", "done"} =>
          Len(DiffLocationCalls) = Max(tot_localisation_obs - 1, 0)
    /\ \A t \in DOMAIN localisation : t >= 1 /\ t < tot_localisation_obs

\* A run over fewer ego frames than obs entries has ended with both
\* localisation checks flagged.
C11_Witness ==
    /\ pc = "done"
    /\ tot_localisation_obs = 3
    /\ tot_localisation_obs < tot_perception_obs
    /\ Len(DiffLocationCalls) = 2
    /\ DOMAIN localisation = {1, 2}

\* Dictionary now extends dictionary before: it has all its keys, with their
\* values.
Extends(now, before) ==
    /\ DOMAIN before \subseteq DOMAIN now
    /\ \A key \in DOMAIN before : now[key] = before[key]

\* C12: no step of run() removes a key of localisation, raw or summary,
\* replaces a localisation value or a raw entry, or lowers a summary counter.
C12_ReportGrows ==
    [][/\ Extends(localisation', localisation)
       /\ Extends(raw', raw)
       /\ DOMAIN summary \subseteq DOMAIN summary'
       /\ \A key \in DOMAIN summary : summary'[key] >= summary[key]
      ]_vars

\* A run has ended with two localisation entries, an empty frame, a type
\* mismatch and a counter for each in the report.
C12_Witness ==
    /\ pc = "done"
    /\ Cardinality(DOMAIN localisation) = 2
    /\ \E e, f \in DOMAIN raw : raw[e] = None /\ raw[f] # None
    /\ Cardinality(DOMAIN summary) = 2

\* C13: a call on a frame that lists an identifier already in the table leaves
\* it with undetected_frame_count 0 and with its stored object_type.
C13_ReSightingResets ==
    [][(TrackerStep /\ scene'.present) =>
        \A k \in SceneTracksId(scene') \cap DOMAIN currently_tracked_objects :
            /\ k \in DOMAIN currently_tracked_objects'
            /\ currently_tracked_objects'[k].undetected_frame_count = 0
            /\ currently_tracked_objects'[k].object_type
               = currently_tracked_objects[k].object_type
      ]_vars

\* Identifier k has been sighted and then lost: its entry is gone from the
\* table, or it has been absent from more frames than the threshold allows.
Lost(k) ==
    /\ absent_streak[k] >= 0
    /\ \/ k \notin DOMAIN currently_tracked_objects
       \/ absent_streak[k] > del_track_id_after_missed_frames

\* The object_type identifier k had when it was last in the table.
FormerType(k) ==
    IF k \in DOMAIN currently_tracked_objects
    THEN currently_tracked_objects[k].object_type
    ELSE dropped[k]

PairwiseDistinct(seq) ==
    \A g, h \in 1..Len(seq) : seq[g] = seq[h] => g = h

\* C14: in a frame of pairwise distinct identifiers, an identifier that was
\* lost and is listed again with another object_type is inserted with the new
\* type and undetected_frame_count 0, the raw entry of the frame is not a
\* record of it, and the summary counters grow by the mismatches of the other
\* identifiers only.
C14_LostIsFirstSighting ==
    [][(TrackerStep /\ scene'.present /\ PairwiseDistinct(scene'.scene_id)) =>
        LET back == {j \in 1..Len(scene'.scene_id) :
                        /\ Lost(scene'.scene_id[j])
                        /\ FormerType(scene'.scene_id[j]) # scene'.type[j]}
            others == {j \in Mismatching(scene', currently_tracked_objects) :
                          ~Lost(scene'.scene_id[j])}
            key(j) == SummaryKey(
                          currently_tracked_objects[scene'.scene_id[j]].object_type,
                          scene'.type[j])
        IN back # {} =>
           /\ \A j \in back :
                 /\ scene'.scene_id[j] \in DOMAIN currently_tracked_objects'
                 /\ currently_tracked_objects'[scene'.scene_id[j]]
                    = [object_type |-> scene'.type[j],
                       undetected_frame_count |-> 0]
                 /\ ToString(scene_id') \in DOMAIN raw'
                    => /\ raw'[ToString(scene_id')] # None
                       /\ raw'[ToString(scene_id')].track_id # scene'.scene_id[j]
           /\ \A a, b \in Labels :
                 Count(summary', SummaryKey(a, b)) - Count(summary, SummaryKey(a, b))
                 = Cardinality({j \in others : key(j) = SummaryKey(a, b)})
      ]_vars

\* The frame just processed lists, alone, an identifier whose entry was deleted
\* with one known object_type and that is now stored with another known one;
\* the report holds no record and no transition counter.
C14_Witness ==
    /\ scene.present
    /\ scene_id = 2
    /\ \E k \in Ids :
          /\ scene.scene_id = <<k>>
          /\ dropped[k] \notin {"-", "UNKNOWN", scene.type[1]}
          /\ scene.type[1] # "UNKNOWN"
          /\ k \in DOMAIN currently_tracked_objects
          /\ currently_tracked_objects[k]
             = [object_type |-> scene.type[1], undetected_frame_count |-> 0]
    /\ raw = EmptyDict
    /\ summary = EmptyDict

\* C15: every entry of the table has an undetected_frame_count from 0 to
\* del_track_id_after_missed_frames; no entry is left with a larger one.
C15_CountWithinGrace ==
    \A k \in DOMAIN currently_tracked_objects :
        /\ currently_tracked_objects[k].undetected_frame_count >= 0
        /\ currently_tracked_objects[k].undetected_frame_count
           <= del_track_id_after_missed_frames

\* One entry sits at the threshold, which is not 0, and another identifier's
\* entry has been deleted for passing it.
C15_Witness ==
    /\ del_track_id_after_missed_frames >= 1
    /\ \E k \in DOMAIN currently_tracked_objects :
          currently_tracked_objects[k].undetected_frame_count
          = del_track_id_after_missed_frames
    /\ \E k \in Ids : /\ k \notin DOMAIN currently_tracked_objects
                      /\ dropped[k] # "-"

\* The tracker's state after frames 0..frame of the obs entries read, from an
\* empty table and an empty report.
RECURSIVE TrackUpTo(_, _, _)
TrackUpTo(obs, frame, threshold) ==
    IF frame < 0
    THEN [tracked |-> EmptyDict, raw |-> EmptyDict, summary |-> EmptyDict]
    ELSE TrackedObjectTypeConsistency(TrackUpTo(obs, frame - 1, threshold),
                                      obs[frame], frame, threshold)

\* The localisation reports diff_location can leave after the pairs
\* (1, 0)..(t, t - 1) of the ego frames read, from an empty report.
RECURSIVE LocaliseUpTo(_, _, _, _)
LocaliseUpTo(log, t, rate, max_diff) ==
    IF t < 1
    THEN {EmptyDict}
    ELSE UNION {DiffLocation(loc, t,
                             [x |-> log.ego[t - 1].x, y |-> log.ego[t - 1].y,
                              speed |-> log.motion[t - 1].speed,
                              yaw |-> log.motion[t - 1].yaw],
                             log.ego[t], rate, max_diff) :
                loc \in LocaliseUpTo(log, t - 1, rate, max_diff)}

\* C16: the table and the perception report are what the tracker alone makes
\* of obs and del_track_id_after_missed_frames, frame by frame up to
\* tot_perception_obs - 2, and the localisation report is what diff_location
\* alone makes of the ego frames, fps and localisation_max_diff, pair by pair
\* up to tot_localisation_obs - 1; neither depends on the other stream.
C16_DetectorsIndependent ==
    /\ DOMAIN driving_info.obs = 0..(Len(TrackerCalls) - 1)
    /\ [tracked |-> currently_tracked_objects, raw |-> raw, summary |-> summary]
       = TrackUpTo(driving_info.obs, Len(TrackerCalls) - 1,
                   del_track_id_after_missed_frames)
    /\ LET locs == LocaliseUpTo(driving_info, Len(DiffLocationCalls), fps,
                                localisation_max_diff)
       IN locs = {localisation}
    /\ pc \in {"emit", "done"} =>
          /\ Len(TrackerCalls) = Max(tot_perception_obs - 1, 0)
          /\ Len(DiffLocationCalls) = Max(tot_localisation_obs - 1, 0)
    /\ pc = "done" =>
          output = <<[localisation |-> localisation,
                      perception |-> [raw |-> raw, summary |-> summary]]>>

\* A run over streams of different lengths has ended with a localisation
\* entry, an unflagged ego frame, a type mismatch and a tracked object.
C16_Witness ==
    /\ pc = "done"
    /\ tot_localisation_obs = 3
    /\ tot_perception_obs = 4
    /\ Cardinality(DOMAIN localisation) = 1
    /\ \E f \in DOMAIN raw : raw[f] # None
    /\ summary # EmptyDict
    /\ currently_tracked_objects # EmptyDict

\* A step that is one call of diff_location.
DiffLocationStep ==
    /\ Len(calls') = Len(calls) + 1
    /\ calls'[Len(calls')][1] = "diff_location"

\* C17: a call diff_location(t, t - 1) leaves the table, raw, summary and
\* every localisation entry but that of t as they were, and whether t gets an
\* entry, and which, is what the same call makes of an empty report: it
\* follows from the two ego frames read, fps and localisation_max_diff.
C17_DiffLocationFrame ==
    [][DiffLocationStep =>
        LET t == calls'[Len(calls')][2]
            alone == DiffLocation(EmptyDict, t, ego_prev', ego_curr', fps,
                                  localisation_max_diff)
        IN /\ currently_tracked_objects' = currently_tracked_objects
           /\ raw' = raw
           /\ summary' = summary
           /\ DOMAIN localisation' \ {t} = DOMAIN localisation \ {t}
           /\ \A u \in DOMAIN localisation \ {t} :
                 localisation'[u] = localisation[u]
           /\ \E d \in alone :
                 /\ t \in DOMAIN localisation' <=> t \in DOMAIN d
                 /\ t \in DOMAIN d => localisation'[t] = d[t]
      ]_vars

\* diff_location has just flagged frame 3 with frames 1 and 2 flagged before
\* it, the table and the perception report holding entries of their own.
C17_Witness ==
    /\ pc = "track"
    /\ LastCallIsDiffLocation
    /\ calls[Len(calls)][2] = 3
    /\ DOMAIN localisation = {1, 2, 3}
    /\ currently_tracked_objects # EmptyDict
    /\ raw # EmptyDict
    /\ summary # EmptyDict

\* The loop iterations run() has completed.
Iterations == i - 1

\* Every detector call of the run has been made.
NoCallPending ==
    /\ Len(DiffLocationCalls) = Max(tot_localisation_obs - 1, 0)
    /\ Len(TrackerCalls) = Max(tot_perception_obs - 1, 0)

\* C18: run() ends, after max(tot_localisation_obs, tot_perception_obs) - 1
\* loop iterations or none when that is negative; the report is written when
\* no detector call is pending, it is the final one, and after it no call is
\* made and nothing is written again.
C18_Terminates ==
    /\ <>(pc = "done")
    /\ [](pc = "done" =>
            /\ Iterations = Max(Max(tot_localisation_obs, tot_perception_obs) - 1, 0)
            /\ output = <<Report>>)
    /\ [](pc # "done" => output = NoOutput)
    /\ [](output # NoOutput => NoCallPending)
    /\ [][output # NoOutput => (output' = output /\ calls' = calls)]_vars

\* A run over streams of different lengths has ended after 3 iterations and 5
\* detector calls with its report written.
C18_Witness ==
    /\ pc = "done"
    /\ tot_localisation_obs = 3
    /\ tot_perception_obs = 4
    /\ Iterations = 3
    /\ Len(calls) = 5
    /\ output = <<Report>>
    /\ output[1].localisation # EmptyDict
    /\ output[1].perception.raw # EmptyDict

\* The sum of the transition counters of summary: all keys but empty_frames.
RECURSIVE SumCounters(_, _)
SumCounters(sm, keys) ==
    IF keys = {} THEN 0
    ELSE LET key == CHOOSE c \in keys : TRUE
         IN sm[key] + SumCounters(sm, keys \ {key})

TransitionTotal == SumCounters(summary, DOMAIN summary \ {"empty_frames"})

NullEntries == {f \in DOMAIN raw : raw[f] = None}

\* C19: raw has as many None entries as summary counts empty_frames, no more
\* records than the transition counters add up to, and no key but the frames
\* the tracker has been called on.
C19_ReportConsistent ==
    /\ Cardinality(NullEntries) = Count(summary, "empty_frames")
    /\ Cardinality(DOMAIN raw \ NullEntries) <= TransitionTotal
    /\ \A f \in DOMAIN raw :
          \E j \in 1..Len(TrackerCalls) : f = ToString(TrackerCalls[j][2])

\* The report holds a None entry and a record, and one frame has counted two
\* mismatches for its one record.
C19_Witness ==
    /\ NullEntries # {}
    /\ Cardinality(DOMAIN raw \ NullEntries) = 1
    /\ TransitionTotal = 2
    /\ Count(summary, "empty_frames") = 1

====
